---- MODULE Spec2Model ----
(***************************************************************************)
(* Model of the nyx process supervisor: the per-watch state machines of    *)
(* src/src/state.c (state_loop, process_state, the transition actions,     *)
(* set_state), the dispatcher dispatch_poll_result, and the teardown of    *)
(* state_destroy / nyx_destroy.                                            *)
(*                                                                         *)
(* Every access to a field another thread may touch (state->state,         *)
(* state->pid, the semaphore) is one step of its own, so that the          *)
(* unsynchronised accesses of the C code interleave as they can on the     *)
(* machine.  Thread-local work (last_state, current_state, the table       *)
(* lookup) is folded into the shared access it follows.                    *)
(***************************************************************************)
EXTENDS Integers, Naturals, FiniteSets, Sequences, TLC

(* ------------------------------ bounds -------------------------------- *)

\* numbers of watches a configuration can hold
WatchCounts == { 1, 2 }
\* pids are drawn from 1..MaxPid
MaxPid == 3
\* calls of dispatch_poll_result the polling scheme makes in one run with one
\* watch; every further watch of the configuration takes two calls off
MaxDispatch == 3

\* pids a kernel process event carries are drawn from 0..MaxEventPid
MaxEventPid == 2
\* children of the supervisor that can exit in one run
MaxKids == 2

Pids == 1..MaxPid

(* ------------------------------ state_e ------------------------------- *)

STATE_INIT == "INIT"
STATE_UNMONITORED == "UNMONITORED"
STATE_STARTING == "STARTING"
STATE_RUNNING == "RUNNING"
STATE_STOPPING == "STOPPING"
STATE_STOPPED == "STOPPED"
STATE_QUIT == "QUIT"

StateValues ==
    { STATE_INIT, STATE_UNMONITORED, STATE_STARTING, STATE_RUNNING,
      STATE_STOPPING, STATE_STOPPED, STATE_QUIT }

\* names of the transition functions; NULL is the empty table cell
NULL == "NULL"
ActionNames == { "to_unmonitored", "start", "running", "stop", "stopped" }

VARIABLES
    nwatch,     \* number of watches of the configuration (Watch, State and thread each)
    state,      \* state->state of every State
    pid,        \* state->pid
    sem,        \* count of state->sem
    pc,         \* position of every state-machine thread in state_loop
    last,       \* last_state local of state_loop
    current,    \* current_state local of state_loop
    running,    \* `running` local of to_unmonitored
    freed,      \* the State and its semaphore have been freed
    mainpc,     \* position of the main context
    mi,         \* list node the main context is at (dispatch walk / list_destroy)
    mpid,       \* pid argument of the dispatch_poll_result call in progress
    mrun,       \* running argument of the dispatch_poll_result call in progress
    \* history variables (not program state)
    acted,      \* transition function called in the latest loop iteration, or NULL
    credit,     \* 1 + writes of set_state on the State - returns of sem_wait
    nspawn,     \* number of children start_state spawned, counted up to 2
    ndispatch,  \* number of dispatch_poll_result calls made
    disc,       \* outcome of the to_unmonitored discovery: "none", "cold", "warm"
    found       \* pid of the live process the discovery found, 0 when it found none

\* the main context inside nyx_initialize and event_loop, and its signal handlers
VARIABLES
    epc,        \* position of the main context in nyx_initialize / event_loop
    dir,        \* determine_pid_dir: index of *dir in pid_dir_defaults
    pid_dir,    \* nyx->pid_dir, NULL while not chosen
    need_exit,  \* the static flag need_exit of event.c
    rc,         \* rc of handle_process_event
    ret,        \* rc of event_loop, its return value
    sock,       \* the netlink socket: "unopened", "open", "closed"
    event,      \* nyx->event, the eventfd (0: none)
    ready,      \* fds of the events epoll_wait returned, in order
    i,          \* index of the for loop over the returned events
    msg,        \* nlcn_msg.proc_ev as the latest successful recv filled it
    errno,      \* errno of the main thread
    installed,  \* setup_signals has installed the handlers
    hpc,        \* position inside handle_child_stop, "idle" outside of it
    last_errno, \* last_errno local of handle_child_stop
    chld,       \* a SIGCHLD is pending
    kid,        \* every child process: "running", "zombie", "reaped"
    \* history variables (not program state)
    probed,     \* the mkdir_p calls made so far: << index, outcome >>
    subscribed, \* subscribe_event_listen succeeded
    unsub,      \* unsubscribe_event_listen was called
    nclose,     \* close calls made on the netlink socket
    lastrecv,   \* outcome of the latest recv: none, data, shutdown, eintr, error
                \* (error: the one outcome that calls log_perror("nyx: recv"))
    neintr,     \* recv calls in a row that ended with EINTR, counted up to 2
    sockerr,    \* some recv has returned -1 with an errno other than EINTR
    calls,      \* handler invocations made for the latest datagram
    hpid,       \* pid argument of the latest handler invocation
    entry,      \* at the latest start of handle_child_stop: << errno, the zombies >>
    term        \* on_terminate has run

svars == << nwatch, state, pid, sem, pc, last, current, running, freed, mainpc, mi, mpid,
            mrun, acted, credit, nspawn, ndispatch, disc, found >>

pidvars == << dir, pid_dir, probed >>
sockvars == << sock, subscribed, unsub, nclose >>
loopvars == << need_exit, rc, event, ready, i, msg >>
recvhist == << lastrecv, neintr, sockerr, calls, hpid >>
sigvars == << installed, hpc, last_errno, chld, kid, entry, term >>
evvars == << epc, ret, errno, pidvars, sockvars, loopvars, recvhist, sigvars >>

vars == << svars, evvars >>

\* the States of nyx->states, in list order
States == 1..nwatch
LastState == nwatch

shared == << nwatch, state, pid, sem, freed >>
smvars == << pc, last, current, running >>
mainvars == << mainpc, mi, mpid, mrun >>
hist == << acted, credit, nspawn, ndispatch, disc, found >>

(* ------------------------- transition table --------------------------- *)

\* the table with one more cell filled: STOPPED to RUNNING calls running
transition_table_extra(from, to) ==
    CASE from = STATE_INIT /\ to = STATE_UNMONITORED -> "to_unmonitored"
      [] from = STATE_UNMONITORED /\ to = STATE_STARTING -> "start"
      [] from = STATE_UNMONITORED /\ to = STATE_RUNNING -> "running"
      [] from = STATE_UNMONITORED /\ to = STATE_STOPPING -> "stop"
      [] from = STATE_UNMONITORED /\ to = STATE_STOPPED -> "stopped"
      [] from = STATE_STARTING /\ to = STATE_UNMONITORED -> "to_unmonitored"
      [] from = STATE_STARTING /\ to = STATE_RUNNING -> "running"
      [] from = STATE_STARTING /\ to = STATE_STOPPING -> "stop"
      [] from = STATE_STARTING /\ to = STATE_STOPPED -> "stopped"
      [] from = STATE_RUNNING /\ to = STATE_UNMONITORED -> "to_unmonitored"
      [] from = STATE_RUNNING /\ to = STATE_STOPPING -> "stop"
      [] from = STATE_RUNNING /\ to = STATE_STOPPED -> "stopped"
      [] from = STATE_STOPPING /\ to = STATE_UNMONITORED -> "to_unmonitored"
      [] from = STATE_STOPPING /\ to = STATE_STOPPED -> "stopped"
      [] from = STATE_STOPPED /\ to = STATE_UNMONITORED -> "to_unmonitored"
      [] from = STATE_STOPPED /\ to = STATE_STARTING -> "start"
      [] from = STATE_STOPPED /\ to = STATE_RUNNING -> "running"
      [] OTHER -> NULL

\* transition_table[from][to]: the cells the initialiser names; every cell it
\* leaves out is zero-initialised, i.e. NULL
transition_table(from, to) ==
    CASE from = STATE_INIT /\ to = STATE_UNMONITORED -> "to_unmonitored"
      [] from = STATE_UNMONITORED /\ to = STATE_STARTING -> "start"
      [] from = STATE_UNMONITORED /\ to = STATE_RUNNING -> "running"
      [] from = STATE_UNMONITORED /\ to = STATE_STOPPING -> "stop"
      [] from = STATE_UNMONITORED /\ to = STATE_STOPPED -> "stopped"
      [] from = STATE_STARTING /\ to = STATE_UNMONITORED -> "to_unmonitored"
      [] from = STATE_STARTING /\ to = STATE_RUNNING -> "running"
      [] from = STATE_STARTING /\ to = STATE_STOPPING -> "stop"
      [] from = STATE_STARTING /\ to = STATE_STOPPED -> "stopped"
      [] from = STATE_RUNNING /\ to = STATE_UNMONITORED -> "to_unmonitored"
      [] from = STATE_RUNNING /\ to = STATE_STOPPING -> "stop"
      [] from = STATE_RUNNING /\ to = STATE_STOPPED -> "stopped"
      [] from = STATE_STOPPING /\ to = STATE_UNMONITORED -> "to_unmonitored"
      [] from = STATE_STOPPING /\ to = STATE_STOPPED -> "stopped"
      [] from = STATE_STOPPED /\ to = STATE_UNMONITORED -> "to_unmonitored"
      [] from = STATE_STOPPED /\ to = STATE_STARTING -> "start"
      [] OTHER -> NULL

\* process_state: 0 when the cell is NULL, else the result of the transition
\* function, and every transition function returns 1
process_state(old_state, new_state) ==
    IF transition_table(old_state, new_state) = NULL THEN 0 ELSE 1

\* where state_loop continues after reading current_state
AfterRead(last_state, current_state) ==
    LET func == transition_table(last_state, current_state) IN
    CASE current_state = STATE_QUIT -> "done"
      [] last_state = current_state -> "wait"
      [] process_state(last_state, current_state) = 0 -> "rollback"
      [] func = "to_unmonitored" -> "tu_pid"
      [] func = "stopped" -> "st_write"
      [] func = "start" -> "spawn"
      [] OTHER -> "wait"      \* running, stop: log and return 1

\* the transition function process_state calls, NULL when it calls none
Called(last_state, current_state) ==
    IF current_state = STATE_QUIT \/ last_state = current_state
    THEN NULL
    ELSE transition_table(last_state, current_state)

(* ------------------------------ set_state ----------------------------- *)

\* set_state, first statement: state->state = value
set_state_write(s, value) ==
    /\ state' = [state EXCEPT ![s] = value]
    /\ credit' = [credit EXCEPT ![s] = @ + 1]

\* set_state without its post
set_state_post_none(s) ==
    UNCHANGED sem

\* set_state, second statement: sem_post(state->sem)
set_state_post(s) ==
    sem' = [sem EXCEPT ![s] = @ + 1]

(* --------------------- state_loop (one thread per State) -------------- *)

\* One wake of the loop: sem_wait returns, current_state = state->state, the
\* QUIT test, the last != current test and process_state up to the call of
\* the transition function.  running and stop only log and return 1, so the
\* iteration ends in this step (last_state = current_state) for them and for
\* an unchanged value.  sem_wait and the read are one step: a write that
\* falls between them is the same run as that write falling before sem_wait,
\* which the count that let sem_wait return allows.
Wake(s) ==
    /\ pc[s] = "wait"
    /\ sem[s] > 0
    /\ sem' = [sem EXCEPT ![s] = @ - 1]
    /\ credit' = [credit EXCEPT ![s] = @ - 1]
    /\ current' = [current EXCEPT ![s] = state[s]]
    /\ pc' = [pc EXCEPT ![s] = AfterRead(last[s], state[s])]
    /\ acted' = [acted EXCEPT ![s] = Called(last[s], state[s])]
    /\ last' = [last EXCEPT ![s] =
                  IF AfterRead(@, state[s]) = "wait" THEN state[s] ELSE @]
    /\ UNCHANGED << nwatch, state, pid, freed, running, mainvars, nspawn, ndispatch, disc, found >>
    /\ UNCHANGED evvars

\* to_unmonitored up to the write of state->pid: determine_pid and
\* check_process_running are the environment's answers
ToUnmonitoredPid(s) ==
    /\ pc[s] = "tu_pid"
    /\ \E stored \in 0..MaxPid, alive \in BOOLEAN :
         LET p == IF pid[s] < 1 THEN stored ELSE pid[s]
             r == p > 0 /\ alive
         IN /\ running' = [running EXCEPT ![s] = r]
            /\ pid' = [pid EXCEPT ![s] = IF p > 0 THEN (IF r THEN p ELSE 0) ELSE @]
            /\ disc' = [disc EXCEPT ![s] = IF r THEN "warm" ELSE "cold"]
            /\ found' = [found EXCEPT ![s] = IF r THEN p ELSE 0]
    /\ pc' = [pc EXCEPT ![s] = "tu_write"]
    /\ UNCHANGED << nwatch, state, sem, freed, last, current, mainvars, acted, credit,
                    nspawn, ndispatch >>
    /\ UNCHANGED evvars

\* to_unmonitored that reports STOPPED whatever the probe said
ToUnmonitoredWriteStopped(s) ==
    /\ pc[s] = "tu_write"
    /\ set_state_write(s, STATE_STOPPED)
    /\ pc' = [pc EXCEPT ![s] = "tu_post"]
    /\ UNCHANGED << nwatch, pid, sem, freed, last, current, running, mainvars, acted,
                    nspawn, ndispatch, disc, found >>
    /\ UNCHANGED evvars

\* to_unmonitored: set_state(state, running ? STATE_RUNNING : STATE_STOPPED), the write
ToUnmonitoredWrite(s) ==
    /\ pc[s] = "tu_write"
    /\ set_state_write(s, IF running[s] THEN STATE_RUNNING ELSE STATE_STOPPED)
    /\ pc' = [pc EXCEPT ![s] = "tu_post"]
    /\ UNCHANGED << nwatch, pid, sem, freed, last, current, running, mainvars, acted,
                    nspawn, ndispatch, disc, found >>
    /\ UNCHANGED evvars

\* to_unmonitored: the post of set_state, return 1; last_state = current_state
ToUnmonitoredPost(s) ==
    /\ pc[s] = "tu_post"
    /\ set_state_post(s)
    /\ last' = [last EXCEPT ![s] = current[s]]
    /\ running' = [running EXCEPT ![s] = FALSE]
    /\ pc' = [pc EXCEPT ![s] = "wait"]
    /\ UNCHANGED << nwatch, state, pid, freed, current, mainvars, hist >>
    /\ UNCHANGED evvars

\* stopped: set_state(state, STATE_STARTING), the write
StoppedWrite(s) ==
    /\ pc[s] = "st_write"
    /\ set_state_write(s, STATE_STARTING)
    /\ pc' = [pc EXCEPT ![s] = "st_post"]
    /\ UNCHANGED << nwatch, pid, sem, freed, last, current, running, mainvars, acted,
                    nspawn, ndispatch, disc, found >>
    /\ UNCHANGED evvars

\* stopped: the post of set_state, return 1; last_state = current_state
StoppedPost(s) ==
    /\ pc[s] = "st_post"
    /\ set_state_post(s)
    /\ last' = [last EXCEPT ![s] = current[s]]
    /\ pc' = [pc EXCEPT ![s] = "wait"]
    /\ UNCHANGED << nwatch, state, pid, freed, current, running, mainvars, hist >>
    /\ UNCHANGED evvars

\* pids fork can return: no pid a State records for a child it holds
FreshPids == Pids \ { pid[t] : t \in States }

\* start that spawns and forgets the child's pid
StartForgetsPid(s) ==
    /\ pc[s] = "spawn"
    /\ nspawn' = [nspawn EXCEPT ![s] = IF @ < 2 THEN @ + 1 ELSE @]
    /\ last' = [last EXCEPT ![s] = current[s]]
    /\ pc' = [pc EXCEPT ![s] = "wait"]
    /\ UNCHANGED << nwatch, state, pid, sem, freed, current, running, mainvars, acted,
                    credit, ndispatch, disc, found >>
    /\ UNCHANGED evvars

\* start -> start_state: pid = spawn(state); if (pid > 0) state->pid = pid;
\* last_state = current_state.  A failed fork ends the process in
\* log_critical_perror, so the parent continues only with pid > 0.
Start(s) ==
    /\ pc[s] = "spawn"
    /\ \E child \in FreshPids : pid' = [pid EXCEPT ![s] = child]
    /\ nspawn' = [nspawn EXCEPT ![s] = IF @ < 2 THEN @ + 1 ELSE @]
    /\ last' = [last EXCEPT ![s] = current[s]]
    /\ pc' = [pc EXCEPT ![s] = "wait"]
    /\ UNCHANGED << nwatch, state, sem, freed, current, running, mainvars, acted, credit,
                    ndispatch, disc, found >>
    /\ UNCHANGED evvars

\* if (!result) state->state = last_state; then last_state = current_state
Rollback(s) ==
    /\ pc[s] = "rollback"
    /\ state' = [state EXCEPT ![s] = last[s]]
    /\ last' = [last EXCEPT ![s] = current[s]]
    /\ pc' = [pc EXCEPT ![s] = "wait"]
    /\ UNCHANGED << nwatch, pid, sem, freed, current, running, mainvars, hist >>
    /\ UNCHANGED evvars

state_loop(s) ==
    \/ Wake(s)
    \/ ToUnmonitoredPid(s)
    \/ ToUnmonitoredWrite(s)
    \/ ToUnmonitoredPost(s)
    \/ StoppedWrite(s)
    \/ StoppedPost(s)
    \/ Start(s)
    \/ Rollback(s)

(* ------------------------- the main context --------------------------- *)

\* node = node->next of a list walk; `back` is where the caller continues
\* when the walk has passed the last node
NextNode(walk, back) ==
    IF mi = LastState
    THEN /\ mainpc' = back
         /\ mi' = 1
    ELSE /\ mainpc' = walk
         /\ mi' = mi + 1

\* the polling scheme calls dispatch_poll_result(p, r, nyx) while the event
\* loop runs: node = nyx->states->head
DispatchCall(p, r) ==
    /\ mainpc = "loop"
    /\ ndispatch + 2 * (nwatch - 1) < MaxDispatch
    /\ ndispatch' = ndispatch + 1
    /\ mainpc' = "d_pid"
    /\ mi' = 1
    /\ mpid' = p
    /\ mrun' = r
    /\ UNCHANGED << shared, smvars, acted, credit, nspawn, disc, found >>
    /\ UNCHANGED evvars

\* the walk without the pid comparison: every State is taken as a match
DispatchPidAny ==
    /\ mainpc = "d_pid"
    /\ mainpc' = "d_state"
    /\ mi' = mi
    /\ UNCHANGED << shared, smvars, mpid, mrun, hist >>
    /\ UNCHANGED evvars

\* if (state != NULL && state->pid == pid)
DispatchPid ==
    /\ mainpc = "d_pid"
    /\ IF pid[mi] = mpid
       THEN /\ mainpc' = "d_state"
            /\ mi' = mi
       ELSE NextNode("d_pid", "loop")
    /\ UNCHANGED << shared, smvars, mpid, mrun, hist >>
    /\ UNCHANGED evvars

\* a dispatcher that reports a process that is not running as STOPPING
next_state_stopping(r) == IF r THEN STATE_RUNNING ELSE STATE_STOPPING

\* next_state = running ? STATE_RUNNING : STATE_STOPPED
next_state(r) == IF r THEN STATE_RUNNING ELSE STATE_STOPPED

\* if (next_state != state->state)
DispatchState ==
    /\ mainpc = "d_state"
    /\ IF next_state(mrun) # state[mi]
       THEN /\ mainpc' = "d_write"
            /\ mi' = mi
       ELSE NextNode("d_pid", "loop")
    /\ UNCHANGED << shared, smvars, mpid, mrun, hist >>
    /\ UNCHANGED evvars

\* set_state(state, next_state), the write
DispatchWrite ==
    /\ mainpc = "d_write"
    /\ set_state_write(mi, next_state(mrun))
    /\ mainpc' = "d_post"
    /\ UNCHANGED << nwatch, pid, sem, freed, smvars, mi, mpid, mrun, acted, nspawn,
                    ndispatch, disc, found >>
    /\ UNCHANGED evvars

\* set_state(state, next_state), the post; node = node->next
DispatchPost ==
    /\ mainpc = "d_post"
    /\ set_state_post(mi)
    /\ NextNode("d_pid", "loop")
    /\ UNCHANGED << nwatch, state, pid, freed, smvars, mpid, mrun, hist >>
    /\ UNCHANGED evvars

\* the event loop returns and nyx_destroy starts list_destroy(nyx->states),
\* which calls state_destroy on every State in list order
Terminate ==
    /\ mainpc = "loop"
    /\ mainpc' = "q_write"
    /\ mi' = 1
    /\ mpid' = 0
    /\ mrun' = FALSE
    /\ UNCHANGED << shared, smvars, hist >>
    /\ UNCHANGED evvars

\* state_destroy: set_state(state, STATE_QUIT), the write
DestroyWrite ==
    /\ mainpc = "q_write"
    /\ set_state_write(mi, STATE_QUIT)
    /\ mainpc' = "q_post"
    /\ UNCHANGED << nwatch, pid, sem, freed, smvars, mi, mpid, mrun, acted, nspawn,
                    ndispatch, disc, found >>
    /\ UNCHANGED evvars

\* state_destroy: set_state(state, STATE_QUIT), the post
DestroyPost ==
    /\ mainpc = "q_post"
    /\ set_state_post(mi)
    /\ mainpc' = "q_join"
    /\ UNCHANGED << nwatch, state, pid, freed, smvars, mi, mpid, mrun, hist >>
    /\ UNCHANGED evvars

\* state_destroy that does not wait for the thread
DestroyJoinNoWait ==
    /\ mainpc = "q_join"
    /\ mainpc' = "q_free"
    /\ UNCHANGED << shared, smvars, mi, mpid, mrun, hist >>
    /\ UNCHANGED evvars

\* state_destroy: pthread_join(*state->thread, &retval) returns once the
\* thread has left state_loop
DestroyJoin ==
    /\ mainpc = "q_join"
    /\ pc[mi] = "done"
    /\ mainpc' = "q_free"
    /\ UNCHANGED << shared, smvars, mi, mpid, mrun, hist >>
    /\ UNCHANGED evvars

\* state_destroy: sem_destroy(sem); free(sem); free(state); then the next
\* State of the list, and after the last one hash_destroy(nyx->watches)
DestroyFree ==
    /\ mainpc = "q_free"
    /\ freed' = [freed EXCEPT ![mi] = TRUE]
    /\ NextNode("q_write", "exit")
    /\ UNCHANGED << nwatch, state, pid, sem, smvars, mpid, mrun, hist >>
    /\ UNCHANGED evvars

(* ------------- the main context: nyx_initialize, event_loop ----------- *)

\* pid_dir_defaults, without its NULL terminator
pid_dir_defaults == << "/var/run/nyx", "~/.nyx/pid", "/tmp/nyx/pid" >>

ErrnoValues == { "OK", "EINTR", "ECHILD", "EIO" }

Kids == 1..MaxKids
EventPids == 0..MaxEventPid

\* a positive byte count returned by recv
RecvLen == 2

\* proc_event.what; OTHER is an opcode the switch does not name
EventKinds == { "NONE", "FORK", "EXIT", "EXEC", "UID", "GID", "OTHER" }

NoMsg == [ what |-> "NONE", parent_pid |-> 0, child_pid |-> 0, process_pid |-> 0 ]

\* the proc_event a datagram can carry
Messages ==
    { [ what |-> "FORK", parent_pid |-> a, child_pid |-> b, process_pid |-> 0 ] :
          a \in EventPids, b \in EventPids }
    \cup { [ what |-> "EXIT", parent_pid |-> 0, child_pid |-> 0, process_pid |-> a ] :
          a \in EventPids }
    \cup { [ what |-> w, parent_pid |-> 0, child_pid |-> 0, process_pid |-> 0 ] :
          w \in EventKinds \ { "FORK", "EXIT" } }

\* what a recv on the socket can come back with
RecvOutcomes == { "shutdown", "eintr", "error", "data" }

\* set_event_data that reports the child of a fork
set_event_data_child(ev) ==
    CASE ev.what = "FORK" -> ev.child_pid
      [] ev.what = "EXIT" -> ev.process_pid
      [] OTHER -> 0

\* set_event_data: the pid it returns
set_event_data(ev) ==
    CASE ev.what = "FORK" -> ev.parent_pid
      [] ev.what = "EXIT" -> ev.process_pid
      [] OTHER -> 0

\* what epoll_wait can return: the registered fds that are ready, in any order
ReadySets ==
    IF event > 0
    THEN { << "sock" >>, << "eventfd" >>, << "sock", "eventfd" >>, << "eventfd", "sock" >> }
    ELSE { << "sock" >> }

\* the main thread runs its own code only outside of a signal handler
MainRuns == hpc = "idle"

\* determine_pid_dir that probes the whole list and keeps the last success
determine_pid_dir_last ==
    /\ epc = "pid_dir"
    /\ MainRuns
    /\ \E ok \in BOOLEAN :
         /\ probed' = Append(probed, << dir, ok >>)
         /\ pid_dir' = IF ok THEN pid_dir_defaults[dir] ELSE pid_dir
         /\ dir' = IF dir = Len(pid_dir_defaults) THEN dir ELSE dir + 1
         /\ epc' = IF dir < Len(pid_dir_defaults) THEN "pid_dir"
                   ELSE IF pid_dir' = NULL THEN "init_failed" ELSE "connect"
    /\ UNCHANGED << svars, ret, errno, sockvars, loopvars, recvhist, sigvars >>

\* determine_pid_dir: one round of while (*dir): mkdir_p(*dir), return *dir or
\* dir++; past the last entry return NULL, and nyx_initialize returns NULL
determine_pid_dir ==
    /\ epc = "pid_dir"
    /\ MainRuns
    /\ \E ok \in BOOLEAN :
         /\ probed' = Append(probed, << dir, ok >>)
         /\ IF ok
            THEN /\ pid_dir' = pid_dir_defaults[dir]
                 /\ dir' = dir
                 /\ epc' = "connect"
            ELSE /\ pid_dir' = pid_dir
                 /\ dir' = dir + 1
                 /\ epc' = IF dir = Len(pid_dir_defaults) THEN "init_failed" ELSE "pid_dir"
    /\ UNCHANGED << svars, ret, errno, sockvars, loopvars, recvhist, sigvars >>

\* netlink_connect that leaves the socket open when bind fails
netlink_connect_leak ==
    /\ epc = "connect"
    /\ MainRuns
    /\ \E outcome \in { "ok", "socket", "bind" } :
         CASE outcome = "ok" ->
                /\ sock' = "open"
                /\ epc' = "subscribe"
                /\ UNCHANGED << ret, errno, nclose >>
           [] outcome = "socket" ->
                /\ errno' = "EIO"
                /\ ret' = 0
                /\ epc' = "returned"
                /\ UNCHANGED << sock, nclose >>
           [] outcome = "bind" ->
                /\ errno' = "EIO"
                /\ sock' = "open"
                /\ ret' = 0
                /\ epc' = "returned"
                /\ UNCHANGED nclose
    /\ UNCHANGED << svars, pidvars, subscribed, unsub, loopvars, recvhist, sigvars >>

\* event_loop: socket = netlink_connect(); if (socket == -1) return 0.
\* netlink_connect closes the socket itself when bind fails.
netlink_connect ==
    /\ epc = "connect"
    /\ MainRuns
    /\ \E outcome \in { "ok", "socket", "bind" } :
         CASE outcome = "ok" ->
                /\ sock' = "open"
                /\ epc' = "subscribe"
                /\ UNCHANGED << ret, errno, nclose >>
           [] outcome = "socket" ->
                /\ errno' = "EIO"
                /\ ret' = 0
                /\ epc' = "returned"
                /\ UNCHANGED << sock, nclose >>
           [] outcome = "bind" ->
                /\ errno' = "EIO"
                /\ sock' = "closed"
                /\ nclose' = nclose + 1
                /\ ret' = 0
                /\ epc' = "returned"
    /\ UNCHANGED << svars, pidvars, subscribed, unsub, loopvars, recvhist, sigvars >>

\* rc = subscribe_event_listen(socket); if (rc == -1) { rc = 0; goto out; }
subscribe_event_listen ==
    /\ epc = "subscribe"
    /\ MainRuns
    /\ \E ok \in BOOLEAN :
         IF ok
         THEN /\ subscribed' = TRUE
              /\ epc' = "signals"
              /\ UNCHANGED << ret, errno >>
         ELSE /\ errno' = "EIO"
              /\ ret' = 0
              /\ epc' = "out"
              /\ UNCHANGED subscribed
    /\ UNCHANGED << svars, pidvars, sock, unsub, nclose, loopvars, recvhist, sigvars >>

\* setup_signals(nyx, on_terminate): SIGCHLD, SIGTERM and SIGINT get their handlers
setup_signals ==
    /\ epc = "signals"
    /\ MainRuns
    /\ installed' = TRUE
    /\ epc' = "epoll_setup"
    /\ UNCHANGED << svars, ret, errno, pidvars, sockvars, loopvars, recvhist,
                    hpc, last_errno, chld, kid, entry, term >>

\* handle_process_event up to the loop: rc = 0; epoll_create, unblock_socket,
\* add_epoll_socket for the socket and, if (nyx->event > 0), for the eventfd;
\* any failure is a goto teardown
EpollSetup ==
    /\ epc = "epoll_setup"
    /\ MainRuns
    /\ rc' = 0
    /\ \E ev \in { 0, 1 }, ok \in BOOLEAN :
         /\ event' = ev
         /\ IF ok
            THEN /\ epc' = "test"
                 /\ UNCHANGED errno
            ELSE /\ epc' = "teardown"
                 /\ errno' = "EIO"
    /\ UNCHANGED << svars, ret, pidvars, sockvars, need_exit, ready, i, msg, recvhist,
                    sigvars >>

\* while (!need_exit)
LoopTest ==
    /\ epc = "test"
    /\ MainRuns
    /\ epc' = IF need_exit = 0 THEN "enter" ELSE "teardown"
    /\ UNCHANGED << svars, ret, errno, pidvars, sockvars, loopvars, recvhist, sigvars >>

\* the call of epoll_wait(epfd, events, max_conn, -1): the thread blocks
EpollEnter ==
    /\ epc = "enter"
    /\ MainRuns
    /\ epc' = "wait"
    /\ UNCHANGED << svars, ret, errno, pidvars, sockvars, loopvars, recvhist, sigvars >>

\* epoll_wait returns n > 0 events: the kernel has a process event, or
\* somebody wrote to the eventfd
EpollReturn ==
    /\ epc = "wait"
    /\ MainRuns
    /\ \E r \in ReadySets : ready' = r
    /\ i' = 1
    /\ epc' = "for"
    /\ UNCHANGED << svars, ret, errno, pidvars, sockvars, need_exit, rc, event, msg,
                    recvhist, sigvars >>

\* epoll_wait was interrupted by a signal handler: n = -1 with EINTR (it is
\* never restarted), the for loop has nothing to do
EpollEintr ==
    /\ epc = "eintr"
    /\ MainRuns
    /\ errno' = "EINTR"
    /\ epc' = "test"
    /\ UNCHANGED << svars, ret, pidvars, sockvars, loopvars, recvhist, sigvars >>

\* i < n fails: the for loop is done
ForEnd ==
    /\ epc = "for"
    /\ MainRuns
    /\ i > Len(ready)
    /\ ready' = << >>
    /\ i' = 1
    /\ msg' = NoMsg
    /\ calls' = 0
    /\ hpid' = 0
    /\ epc' = "test"
    /\ UNCHANGED << svars, ret, errno, pidvars, sockvars, need_exit, rc, event,
                    lastrecv, neintr, sockerr, sigvars >>

\* fd == nyx->event: handle_eventfd reads the counter (log_perror when that
\* fails) and sets need_exit; rc = 1
handle_eventfd ==
    /\ epc = "for"
    /\ MainRuns
    /\ i <= Len(ready)
    /\ ready[i] = "eventfd"
    /\ \E ok \in BOOLEAN : errno' = IF ok THEN errno ELSE "EIO"
    /\ need_exit' = 1
    /\ rc' = 1
    /\ i' = i + 1
    /\ msg' = NoMsg
    /\ calls' = 0
    /\ hpid' = 0
    /\ UNCHANGED << svars, epc, ret, pidvars, sockvars, event, ready, lastrecv, neintr,
                    sockerr, sigvars >>

\* the recv that takes EINTR for an error: rc stays -1 and the for loop is left
RecvEintrFails(outcome, m) ==
    /\ epc = "for"
    /\ MainRuns
    /\ i <= Len(ready)
    /\ ready[i] = "sock"
    /\ calls' = 0
    /\ hpid' = 0
    /\ sockerr' = (sockerr \/ outcome = "error")
    /\ CASE outcome = "shutdown" ->
              /\ rc' = 1
              /\ lastrecv' = "shutdown"
              /\ neintr' = 0
              /\ ready' = << >>
              /\ i' = 1
              /\ msg' = NoMsg
              /\ epc' = "test"
              /\ UNCHANGED errno
         [] outcome = "eintr" ->
              /\ rc' = -1
              /\ errno' = "EINTR"
              /\ lastrecv' = "eintr"
              /\ neintr' = IF neintr < 2 THEN neintr + 1 ELSE neintr
              /\ ready' = << >>
              /\ i' = 1
              /\ msg' = NoMsg
              /\ epc' = "test"
         [] outcome = "error" ->
              /\ rc' = -1
              /\ errno' = "EIO"
              /\ lastrecv' = "error"
              /\ neintr' = 0
              /\ ready' = << >>
              /\ i' = 1
              /\ msg' = NoMsg
              /\ epc' = "test"
         [] outcome = "data" ->
              /\ rc' = RecvLen
              /\ msg' = m
              /\ lastrecv' = "data"
              /\ neintr' = 0
              /\ epc' = "decode"
              /\ UNCHANGED << errno, ready, i >>
    /\ UNCHANGED << svars, ret, pidvars, sockvars, need_exit, event, sigvars >>

\* rc = recv(fd, &nlcn_msg, sizeof(nlcn_msg), 0) and the tests on rc:
\*   0       rc = 1; break          (the break leaves the for loop)
\*   -1      EINTR: rc = 1; continue; else log_perror("nyx: recv"); break
\*   > 0     the datagram is decoded next
Recv(outcome, m) ==
    /\ epc = "for"
    /\ MainRuns
    /\ i <= Len(ready)
    /\ ready[i] = "sock"
    /\ calls' = 0
    /\ hpid' = 0
    /\ sockerr' = (sockerr \/ outcome = "error")
    /\ CASE outcome = "shutdown" ->
              /\ rc' = 1
              /\ lastrecv' = "shutdown"
              /\ neintr' = 0
              /\ ready' = << >>
              /\ i' = 1
              /\ msg' = NoMsg
              /\ epc' = "test"
              /\ UNCHANGED errno
         [] outcome = "eintr" ->
              /\ rc' = 1
              /\ errno' = "EINTR"
              /\ lastrecv' = "eintr"
              /\ neintr' = IF neintr < 2 THEN neintr + 1 ELSE neintr
              /\ i' = i + 1
              /\ msg' = NoMsg
              /\ UNCHANGED << epc, ready >>
         [] outcome = "error" ->
              /\ rc' = -1
              /\ errno' = "EIO"
              /\ lastrecv' = "error"
              /\ neintr' = 0
              /\ ready' = << >>
              /\ i' = 1
              /\ msg' = NoMsg
              /\ epc' = "test"
         [] outcome = "data" ->
              /\ rc' = RecvLen
              /\ msg' = m
              /\ lastrecv' = "data"
              /\ neintr' = 0
              /\ epc' = "decode"
              /\ UNCHANGED << errno, ready, i >>
    /\ UNCHANGED << svars, ret, pidvars, sockvars, need_exit, event, sigvars >>

\* pid = set_event_data(event_data, &nlcn_msg.proc_ev);
\* if (pid > 0) handler(pid, event_data, nyx); then event++, i++
Decode ==
    /\ epc = "decode"
    /\ MainRuns
    /\ LET p == set_event_data(msg) IN
         IF p > 0
         THEN /\ calls' = calls + 1
              /\ hpid' = p
         ELSE UNCHANGED << calls, hpid >>
    /\ i' = i + 1
    /\ epc' = "for"
    /\ UNCHANGED << svars, ret, errno, pidvars, sockvars, need_exit, rc, event, ready, msg,
                    lastrecv, neintr, sockerr, sigvars >>

\* teardown: free event_data and events, close(epfd), return rc
Teardown ==
    /\ epc = "teardown"
    /\ MainRuns
    /\ epc' = "epilogue"
    /\ UNCHANGED << svars, ret, errno, pidvars, sockvars, loopvars, recvhist, sigvars >>

\* event_loop: rc = handle_process_event(...); if (rc == -1) { rc = 0; goto out; }
Epilogue ==
    /\ epc = "epilogue"
    /\ MainRuns
    /\ IF rc = -1
       THEN /\ ret' = 0
            /\ epc' = "out"
       ELSE /\ ret' = rc
            /\ epc' = "unsubscribe"
    /\ UNCHANGED << svars, errno, pidvars, sockvars, loopvars, recvhist, sigvars >>

\* unsubscribe_event_listen(socket); its result is not looked at
unsubscribe_event_listen ==
    /\ epc = "unsubscribe"
    /\ MainRuns
    /\ unsub' = TRUE
    /\ \E ok \in BOOLEAN : errno' = IF ok THEN errno ELSE "EIO"
    /\ epc' = "out"
    /\ UNCHANGED << svars, ret, pidvars, sock, subscribed, nclose, loopvars, recvhist,
                    sigvars >>

\* out: close(socket); return rc
Out ==
    /\ epc = "out"
    /\ MainRuns
    /\ sock' = "closed"
    /\ nclose' = nclose + 1
    /\ epc' = "returned"
    /\ UNCHANGED << svars, ret, errno, pidvars, subscribed, unsub, loopvars, recvhist,
                    sigvars >>

(* --------------------------- signal handlers -------------------------- *)

\* where the main thread continues when a handler has run: a thread blocked
\* in epoll_wait comes back with EINTR
Interrupted == IF epc = "wait" THEN "eintr" ELSE epc

\* the handlers run with every signal blocked (sigfillset), on the main thread
CanDeliver == installed /\ hpc = "idle" /\ epc # "returned"

\* SIGTERM or SIGINT: on_terminate sets need_exit = 1
on_terminate ==
    /\ CanDeliver
    /\ need_exit' = 1
    /\ term' = TRUE
    /\ epc' = Interrupted
    /\ UNCHANGED << svars, ret, errno, pidvars, sockvars, rc, event, ready, i, msg,
                    recvhist, installed, hpc, last_errno, chld, kid, entry >>

\* a child of the supervisor exits: it is a zombie, and SIGCHLD becomes
\* pending (several exits make one pending signal) once a handler is installed
ChildExit(k) ==
    /\ kid[k] = "running"
    /\ epc # "returned"
    /\ kid' = [kid EXCEPT ![k] = "zombie"]
    /\ chld' = (chld \/ installed)
    /\ UNCHANGED << svars, epc, ret, errno, pidvars, sockvars, loopvars, recvhist,
                    installed, hpc, last_errno, entry, term >>

\* the pending SIGCHLD is delivered: handle_child_stop starts
SigChld ==
    /\ CanDeliver
    /\ chld
    /\ chld' = FALSE
    /\ hpc' = "save"
    /\ entry' = << errno, { k \in Kids : kid[k] = "zombie" } >>
    /\ epc' = Interrupted
    /\ UNCHANGED << svars, ret, errno, pidvars, sockvars, loopvars, recvhist,
                    installed, last_errno, kid, term >>

\* int last_errno = errno
HandlerSave ==
    /\ hpc = "save"
    /\ last_errno' = errno
    /\ hpc' = "waitpid"
    /\ UNCHANGED << svars, epc, ret, errno, pidvars, sockvars, loopvars, recvhist,
                    installed, chld, kid, entry, term >>

\* one waitpid(-1, NULL, WNOHANG): a zombie is reaped and the loop goes on;
\* with none it returns 0, or -1 with ECHILD when no child is left, which
\* ends the loop
HandlerWaitpid ==
    /\ hpc = "waitpid"
    /\ IF \E k \in Kids : kid[k] = "zombie"
       THEN /\ \E k \in Kids :
                 /\ kid[k] = "zombie"
                 /\ kid' = [kid EXCEPT ![k] = "reaped"]
            /\ UNCHANGED << hpc, errno >>
       ELSE /\ hpc' = "restore"
            /\ errno' = IF \E k \in Kids : kid[k] = "running" THEN errno ELSE "ECHILD"
            /\ UNCHANGED kid
    /\ UNCHANGED << svars, epc, ret, pidvars, sockvars, loopvars, recvhist,
                    installed, last_errno, chld, entry, term >>

\* the handler that returns without restoring errno
HandlerRestoreNone ==
    /\ hpc = "restore"
    /\ last_errno' = "OK"
    /\ hpc' = "idle"
    /\ UNCHANGED << svars, epc, ret, errno, pidvars, sockvars, loopvars, recvhist,
                    installed, chld, kid, entry, term >>

\* errno = last_errno; return
HandlerRestore ==
    /\ hpc = "restore"
    /\ errno' = last_errno
    /\ last_errno' = "OK"
    /\ hpc' = "idle"
    /\ UNCHANGED << svars, epc, ret, pidvars, sockvars, loopvars, recvhist,
                    installed, chld, kid, entry, term >>

handle_child_stop ==
    \/ HandlerSave
    \/ HandlerWaitpid
    \/ HandlerRestore

(* --------------------------- specification ---------------------------- *)

\* the main context at the start of nyx_initialize's determine_pid_dir call:
\* need_exit = 0 (static initialiser), no socket, default signal dispositions
InitMain ==
    /\ epc = "pid_dir"
    /\ dir = 1
    /\ pid_dir = NULL
    /\ need_exit = 0
    /\ rc = 0
    /\ ret = 1
    /\ sock = "unopened"
    /\ event = 0
    /\ ready = << >>
    /\ i = 1
    /\ msg = NoMsg
    /\ errno = "OK"
    /\ installed = FALSE
    /\ hpc = "idle"
    /\ last_errno = "OK"
    /\ chld = FALSE
    /\ kid = [k \in Kids |-> "running"]
    /\ probed = << >>
    /\ subscribed = FALSE
    /\ unsub = FALSE
    /\ nclose = 0
    /\ lastrecv = "none"
    /\ neintr = 0
    /\ sockerr = FALSE
    /\ calls = 0
    /\ hpid = 0
    /\ entry = << "OK", {} >>
    /\ term = FALSE

\* state_new with the semaphore initialised to 2
InitSemTwo ==
    /\ nwatch \in WatchCounts
    /\ state = [s \in States |-> STATE_UNMONITORED]
    /\ pid = [s \in States |-> 0]
    /\ sem = [s \in States |-> 2]
    /\ pc = [s \in States |-> "wait"]
    /\ last = [s \in States |-> STATE_INIT]
    /\ current = [s \in States |-> STATE_INIT]
    /\ running = [s \in States |-> FALSE]
    /\ freed = [s \in States |-> FALSE]
    /\ mainpc = "loop"
    /\ mi = 1
    /\ mpid = 0
    /\ mrun = FALSE
    /\ acted = [s \in States |-> NULL]
    /\ credit = [s \in States |-> 1]
    /\ nspawn = [s \in States |-> 0]
    /\ ndispatch = 0
    /\ disc = [s \in States |-> "none"]
    /\ found = [s \in States |-> 0]
    /\ InitMain

\* state after nyx_watches_init: state_new for every watch (UNMONITORED,
\* pid 0 from xcalloc, semaphore count 1) and every thread at the top of
\* state_loop with last_state = STATE_INIT
Init ==
    /\ nwatch \in WatchCounts
    /\ state = [s \in States |-> STATE_UNMONITORED]
    /\ pid = [s \in States |-> 0]
    /\ sem = [s \in States |-> 1]
    /\ pc = [s \in States |-> "wait"]
    /\ last = [s \in States |-> STATE_INIT]
    /\ current = [s \in States |-> STATE_INIT]
    /\ running = [s \in States |-> FALSE]
    /\ freed = [s \in States |-> FALSE]
    /\ mainpc = "loop"
    /\ mi = 1
    /\ mpid = 0
    /\ mrun = FALSE
    /\ acted = [s \in States |-> NULL]
    /\ credit = [s \in States |-> 1]
    /\ nspawn = [s \in States |-> 0]
    /\ ndispatch = 0
    /\ disc = [s \in States |-> "none"]
    /\ found = [s \in States |-> 0]
    /\ InitMain

Main ==
    \/ \E p \in Pids, r \in BOOLEAN : DispatchCall(p, r)
    \/ DispatchPid
    \/ DispatchState
    \/ DispatchWrite
    \/ DispatchPost
    \/ Terminate
    \/ DestroyWrite
    \/ DestroyPost
    \/ DestroyJoin
    \/ DestroyFree

Next ==
    \/ \E s \in States : state_loop(s)
    \/ Main

Spec == Init /\ [][Next]_vars

\* the scheduler runs every thread that can take a step: each state machine,
\* and the main context once it is inside dispatch_poll_result or nyx_destroy.
\* When the polling scheme calls and when the event loop returns is up to the
\* environment.
MainInProgress ==
    \/ DispatchPid
    \/ DispatchState
    \/ DispatchWrite
    \/ DispatchPost
    \/ DestroyWrite
    \/ DestroyPost
    \/ DestroyJoin
    \/ DestroyFree

\* a configuration of one watch
InitOne == Init /\ nwatch = 1

FairSpecOne ==
    /\ InitOne
    /\ [][Next]_vars
    /\ \A s \in WatchCounts : WF_vars(s \in States /\ state_loop(s))
    /\ WF_vars(MainInProgress)

\* the steps of the main context that are its own code
MainCode ==
    \/ determine_pid_dir
    \/ netlink_connect
    \/ subscribe_event_listen
    \/ setup_signals
    \/ EpollSetup
    \/ LoopTest
    \/ EpollEnter
    \/ EpollEintr
    \/ ForEnd
    \/ handle_eventfd
    \/ \E outcome \in RecvOutcomes :
          \E m \in IF outcome = "data" THEN Messages ELSE { NoMsg } : Recv(outcome, m)
    \/ Decode
    \/ Teardown
    \/ Epilogue
    \/ unsubscribe_event_listen
    \/ Out

NextMain ==
    \/ MainCode
    \/ EpollReturn
    \/ on_terminate
    \/ \E k \in Kids : ChildExit(k)
    \/ SigChld
    \/ handle_child_stop

\* the main context from nyx_initialize to the return of event_loop, with the
\* state machines left out (one watch, never started)
SpecMain == InitOne /\ [][NextMain]_vars

\* the main thread runs whenever it can, in its own code and in a handler;
\* when the kernel has an event, when a signal is sent and when a child exits
\* is up to the environment
FairSpecMain ==
    /\ InitOne
    /\ [][NextMain]_vars
    /\ WF_vars(MainCode)
    /\ WF_vars(handle_child_stop)

\* One state machine left alone with a pending wakeup, for every pair of
\* last_state and state->state and every pid: what state_loop does with each
\* cell of the table.
InitTable ==
    /\ nwatch = 1
    /\ state \in [States -> StateValues]
    /\ last \in [States -> StateValues]
    /\ pid \in [States -> 0..MaxPid]
    /\ current = last
    /\ sem = [s \in States |-> 1]
    /\ pc = [s \in States |-> "wait"]
    /\ running = [s \in States |-> FALSE]
    /\ freed = [s \in States |-> FALSE]
    /\ mainpc = "loop"
    /\ mi = 1
    /\ mpid = 0
    /\ mrun = FALSE
    /\ acted = [s \in States |-> NULL]
    /\ credit = [s \in States |-> 1]
    /\ nspawn = [s \in States |-> 0]
    /\ ndispatch = 0
    /\ disc = [s \in States |-> "none"]
    /\ found = [s \in States |-> 0]
    /\ InitMain

NextTable == \E s \in States : state_loop(s)

SpecTable == InitTable /\ [][NextTable]_vars

TypeOK ==
    /\ state \in [States -> StateValues]
    /\ pid \in [States -> 0..MaxPid]
    /\ sem \in [States -> Nat]
    /\ last \in [States -> StateValues]
    /\ current \in [States -> StateValues]
    /\ mi \in States
    /\ nwatch \in WatchCounts

(* ------------------------------- C1 ----------------------------------- *)

\* the cells of the transition table of spec.md section 4.3 that hold an action
SpecTableCells ==
    { << STATE_INIT, STATE_UNMONITORED >>,
      << STATE_UNMONITORED, STATE_STARTING >>, << STATE_UNMONITORED, STATE_RUNNING >>,
      << STATE_UNMONITORED, STATE_STOPPING >>, << STATE_UNMONITORED, STATE_STOPPED >>,
      << STATE_STARTING, STATE_UNMONITORED >>, << STATE_STARTING, STATE_RUNNING >>,
      << STATE_STARTING, STATE_STOPPING >>, << STATE_STARTING, STATE_STOPPED >>,
      << STATE_RUNNING, STATE_UNMONITORED >>, << STATE_RUNNING, STATE_STOPPING >>,
      << STATE_RUNNING, STATE_STOPPED >>,
      << STATE_STOPPING, STATE_UNMONITORED >>, << STATE_STOPPING, STATE_STOPPED >>,
      << STATE_STOPPED, STATE_UNMONITORED >>, << STATE_STOPPED, STATE_STARTING >> }

\* a step in which state machine s wakes and reads state->state
WakeStep(s) == pc[s] = "wait" /\ sem'[s] = sem[s] - 1

\* a step in which state machine s rolls a refused transition back
RollbackStep(s) == pc[s] = "rollback" /\ pc'[s] = "wait"

\* C1: for every pair (from, to) with from # to, process_state succeeds iff
\* the pair is a cell of the spec's table (no cell in the QUIT row nor in the
\* INIT and QUIT columns); a wake of the loop on such a pair calls a
\* transition function iff the pair is a cell and goes to the rollback iff
\* it is not; the rollback leaves state->state equal to `from`, and in that
\* iteration no transition function was called (pid and semaphore untouched).
C1_TransitionLegality ==
    [][ /\ \A from \in StateValues, to \in StateValues :
             from # to =>
               (process_state(from, to) = 1 <=> << from, to >> \in SpecTableCells)
        /\ \A c \in SpecTableCells :
             c[1] # STATE_QUIT /\ c[2] \notin { STATE_INIT, STATE_QUIT }
        /\ \A s \in States :
             /\ (WakeStep(s) /\ state[s] # STATE_QUIT /\ last[s] # state[s]) =>
                  /\ acted'[s] # NULL <=> << last[s], state[s] >> \in SpecTableCells
                  /\ pc'[s] = "rollback" <=> << last[s], state[s] >> \notin SpecTableCells
             /\ RollbackStep(s) =>
                  /\ state'[s] = last[s]
                  /\ last[s] # current[s]
                  /\ acted[s] = NULL
                  /\ pid'[s] = pid[s]
                  /\ sem'[s] = sem[s]
                  /\ credit'[s] = credit[s]
      ]_vars

\* C1 witness: scenario 4 of the spec has happened: a state machine that last
\* processed STOPPING read STARTING, refused it and is waiting again with
\* state->state back at STOPPING
C1_Witness ==
    \E s \in States :
        /\ pc[s] = "wait"
        /\ current[s] = STATE_STARTING
        /\ state[s] = STATE_STOPPING
        /\ acted[s] = NULL
        /\ sem[s] = 0

(* ------------------------------- C2 ----------------------------------- *)

\* contexts that have written state->state of s in set_state and not yet posted
PostPending(s) ==
    (IF pc[s] \in { "tu_post", "st_post" } THEN 1 ELSE 0)
    + (IF mainpc \in { "d_post", "q_post" } /\ mi = s THEN 1 ELSE 0)

\* thread s, resp. the main context, takes the step
SMStep(s) == pc'[s] # pc[s] \/ last'[s] # last[s] \/ sem'[s] = sem[s] - 1
MainStep == mainpc' # mainpc \/ mi' # mi

\* C2 as claimed: every step that writes state->state of a State, the
\* rollback included, leaves its writer at the post of that State's semaphore
C2_EveryWritePosts ==
    [][ \A s \in States :
          /\ (pc[s] \in { "tu_write", "st_write", "rollback" } /\ SMStep(s)) =>
                pc'[s] \in { "tu_post", "st_post" }
          /\ (mainpc \in { "d_write", "q_write" } /\ mi = s /\ MainStep) =>
                (mainpc' \in { "d_post", "q_post" } /\ mi' = s)
      ]_vars

\* C2 amended: every write made through set_state (dispatch_poll_result,
\* state_destroy, to_unmonitored, stopped) is followed by exactly one post
\* before its writer does anything else to the State: the writes of set_state
\* and the posts differ by exactly the writers standing at their post, and the
\* writer's next step is that post, which adds one to the count; the rollback
\* of the state loop is a plain write that no post follows.
C2_SetStateWritePosts ==
    [][ \A s \in States :
          /\ credit'[s] - sem'[s] = PostPending(s)'
          /\ (pc[s] \in { "tu_write", "st_write" } /\ SMStep(s)) =>
                pc'[s] \in { "tu_post", "st_post" }
          /\ (mainpc \in { "d_write", "q_write" } /\ mi = s /\ MainStep) =>
                (mainpc' \in { "d_post", "q_post" } /\ mi' = s)
          /\ (pc[s] \in { "tu_post", "st_post" } /\ SMStep(s)) =>
                (sem'[s] = sem[s] + 1 /\ state'[s] = state[s] /\ pid'[s] = pid[s])
          /\ (mainpc \in { "d_post", "q_post" } /\ mi = s /\ MainStep) =>
                (sem'[s] = sem[s] + 1 /\ state'[s] = state[s] /\ pid'[s] = pid[s])
          /\ RollbackStep(s) =>
                (state'[s] = last[s] /\ sem'[s] = sem[s] /\ pc'[s] = "wait")
      ]_vars

\* C2 witness: the four set_state writers and the rollback have all acted on
\* one State: discovery, a poll result, stopped, a refused transition rolled
\* back, and the QUIT of state_destroy posted
C2_Witness ==
    \E s \in States :
        /\ disc[s] # "none"
        /\ ndispatch >= 2
        /\ mainpc = "q_join" /\ mi = s
        /\ state[s] # STATE_QUIT
        /\ pc[s] = "wait"
        /\ last[s] # state[s]

(* ------------------------------- C3 ----------------------------------- *)

\* state_destroy has written QUIT into State s
QuitWritten(s) ==
    \/ mainpc = "exit"
    \/ mainpc \in { "q_post", "q_join", "q_free" } /\ mi = s
    \/ mainpc \in { "q_write", "q_post", "q_join", "q_free" } /\ mi > s

\* C3: once state_destroy has written QUIT into a State, the next wake of
\* its state machine leaves the loop and calls no transition function
C3_QuitDominance ==
    [][ \A s \in States :
          (QuitWritten(s) /\ WakeStep(s)) =>
              (pc'[s] = "done" /\ acted'[s] = NULL)
      ]_vars

(* ------------------------------- C4 ----------------------------------- *)

\* state_destroy waits in pthread_join for a thread that waits in sem_wait on
\* a semaphore nobody will post: the only posters are the main context, which
\* is inside the join, and the thread itself
JoinStuck(s) ==
    /\ mainpc = "q_join"
    /\ mi = s
    /\ pc[s] = "wait"
    /\ sem[s] = 0

\* C4: teardown terminates: no pthread_join is left waiting for a state
\* machine that is blocked for good
C4_CleanShutdownTerminates ==
    \A s \in States : ~JoinStuck(s)

(* ------------------------------- C5 ----------------------------------- *)

\* C5: pid > 0 only in STARTING, RUNNING, STOPPING (or after teardown wrote
\* QUIT), or in UNMONITORED while to_unmonitored runs; STOPPED implies
\* pid = 0; pid = 0 when start is about to spawn
C5_PidOnlyWhileAlive ==
    \A s \in States :
        /\ pid[s] > 0 =>
              \/ state[s] \in { STATE_STARTING, STATE_RUNNING, STATE_STOPPING, STATE_QUIT }
              \/ state[s] = STATE_UNMONITORED /\ pc[s] \in { "tu_pid", "tu_write" }
        /\ state[s] = STATE_STOPPED => pid[s] = 0
        /\ pc[s] = "spawn" => pid[s] = 0

(* ------------------------------- C6 ----------------------------------- *)

\* C6: the rollback overwrites only the value the state machine read: it
\* never discards a value the main context wrote with set_state after that
\* read (such a value would be lost before any wake could read it)
C6_RollbackNeverDiscards ==
    [][ \A s \in States : RollbackStep(s) => state[s] = current[s] ]_vars

(* ------------------------------- C7 ----------------------------------- *)

\* the state machine is blocked in sem_wait and every set_state call on its
\* State has been answered by one iteration
AllWakeupsServed(s) == pc[s] = "wait" /\ credit[s] = 0

\* C7: with the semaphore starting at 1, the wakes of a state machine never
\* exceed 1 + the completed set_state calls on its State; a state machine
\* that is blocked with nothing pending has made exactly 1 + that many wakes,
\* and unless it read QUIT it comes to rest there; a wake that reads the
\* value last processed calls no transition function and changes nothing.
C7_WakeupConservation ==
    /\ [](\A s \in States :
            /\ credit[s] - PostPending(s) >= 0
            /\ (pc[s] = "wait" /\ sem[s] = 0 /\ PostPending(s) = 0) => credit[s] = 0)
    /\ [][ \A s \in States :
             (WakeStep(s) /\ state[s] = last[s]) =>
                 /\ acted'[s] = NULL
                 /\ pc'[s] = "wait"
                 /\ state'[s] = state[s]
                 /\ pid'[s] = pid[s]
                 /\ last'[s] = last[s]
         ]_vars
    /\ \A s \in WatchCounts :
         <>[](s \in States => (pc[s] = "done" \/ AllWakeupsServed(s)))

\* C7 witness: a State found RUNNING was polled not running and then running
\* again before its state machine woke; both wakes read RUNNING, the value
\* last processed, and the machine rests with every wakeup served
C7_Witness ==
    \E s \in States :
        /\ disc[s] = "warm"
        /\ nspawn[s] = 0
        /\ ndispatch >= 2
        /\ mainpc = "loop"
        /\ AllWakeupsServed(s)
        /\ state[s] = STATE_RUNNING
        /\ last[s] = STATE_RUNNING
        /\ acted[s] = NULL

(* ------------------------------- C8 ----------------------------------- *)

\* the target dispatch_poll_result derives from its running argument
DerivedTarget == IF mrun THEN STATE_RUNNING ELSE STATE_STOPPED

\* C8: dispatch_poll_result(pid, running) reaches set_state on a State only
\* through a pid equal to the given pid and a StateValue different from the
\* derived target, writes exactly that target and posts once; it changes no
\* other State's StateValue or semaphore count and no State's pid.
C8_DispatchFrame ==
    [][ (mainpc \in { "loop", "d_pid", "d_state", "d_write", "d_post" } /\ MainStep) =>
          /\ pid' = pid
          /\ \A t \in States : t # mi => (state'[t] = state[t] /\ sem'[t] = sem[t])
          /\ mainpc \in { "loop", "d_pid", "d_state" } => (state' = state /\ sem' = sem)
          /\ mainpc' = "d_state" => (mainpc = "d_pid" /\ mi' = mi /\ pid[mi] = mpid)
          /\ mainpc' = "d_write" =>
                (mainpc = "d_state" /\ mi' = mi /\ state[mi] # DerivedTarget)
          /\ mainpc = "d_write" =>
                (state'[mi] = DerivedTarget /\ sem' = sem /\ mainpc' = "d_post" /\ mi' = mi)
          /\ mainpc' = "d_post" => mainpc = "d_write"
          /\ mainpc = "d_post" => (sem'[mi] = sem[mi] + 1 /\ state' = state)
      ]_vars

\* C8 witness: with two States holding different pids, the walk passed the
\* first one and has written the target into the second, whose pid matches
C8_Witness ==
    /\ nwatch = 2
    /\ mainpc = "d_post"
    /\ mi = 2
    /\ pid[1] > 0
    /\ pid[1] # mpid
    /\ pid[2] = mpid
    /\ state[2] = DerivedTarget
    /\ state[1] # DerivedTarget

(* ------------------------------- C9 ----------------------------------- *)

\* C9: a reported exit always ends in a re-spawn: while the event loop runs,
\* no state machine comes to rest (blocked, no wakeup pending) with its
\* State at STOPPED, whatever poll results for the pid arrive in between
C9_ExitLeadsToRespawn ==
    \A s \in States :
        ~ ( /\ mainpc = "loop"
            /\ pc[s] = "wait"
            /\ sem[s] = 0
            /\ state[s] = STATE_STOPPED )

(* ------------------------------- C10 ---------------------------------- *)

\* no poll result has arrived and no teardown has begun
Quiet == ndispatch = 0 /\ mainpc = "loop"

\* the state machine rests after a cold start: start ran once, the child's
\* pid is recorded, StateValue is STARTING
ColdDone(s) ==
    /\ pc[s] = "wait" /\ sem[s] = 0
    /\ state[s] = STATE_STARTING /\ last[s] = STATE_STARTING
    /\ acted[s] = "start" /\ nspawn[s] = 1 /\ pid[s] > 0

\* the positions of a cold start, in order
ColdStage(s) ==
    \/ /\ pc[s] = "tu_write" /\ sem[s] = 0 /\ acted[s] = "to_unmonitored"
       /\ state[s] = STATE_UNMONITORED /\ last[s] = STATE_INIT
       /\ nspawn[s] = 0 /\ pid[s] = 0
    \/ /\ pc[s] = "tu_post" /\ sem[s] = 0 /\ acted[s] = "to_unmonitored"
       /\ state[s] = STATE_STOPPED /\ last[s] = STATE_INIT
       /\ nspawn[s] = 0 /\ pid[s] = 0
    \/ /\ pc[s] = "wait" /\ sem[s] = 1 /\ acted[s] = "to_unmonitored"
       /\ state[s] = STATE_STOPPED /\ last[s] = STATE_UNMONITORED
       /\ nspawn[s] = 0 /\ pid[s] = 0
    \/ /\ pc[s] = "st_write" /\ sem[s] = 0 /\ acted[s] = "stopped"
       /\ state[s] = STATE_STOPPED /\ last[s] = STATE_UNMONITORED
       /\ nspawn[s] = 0 /\ pid[s] = 0
    \/ /\ pc[s] = "st_post" /\ sem[s] = 0 /\ acted[s] = "stopped"
       /\ state[s] = STATE_STARTING /\ last[s] = STATE_UNMONITORED
       /\ nspawn[s] = 0 /\ pid[s] = 0
    \/ /\ pc[s] = "wait" /\ sem[s] = 1 /\ acted[s] = "stopped"
       /\ state[s] = STATE_STARTING /\ last[s] = STATE_STOPPED
       /\ nspawn[s] = 0 /\ pid[s] = 0
    \/ /\ pc[s] = "spawn" /\ sem[s] = 0 /\ acted[s] = "start"
       /\ state[s] = STATE_STARTING /\ last[s] = STATE_STOPPED
       /\ nspawn[s] = 0 /\ pid[s] = 0
    \/ ColdDone(s)

\* dispatch_poll_result(pid, true), the first call of the run, is at a State
\* that rests after its cold start with that pid
FirstPollRunning(s) ==
    /\ ColdDone(s)
    /\ ndispatch = 1 /\ mainpc = "d_pid" /\ mi = s
    /\ mpid = pid[s] /\ mrun

\* the State is RUNNING and the running action was accepted
RunningAccepted(s) ==
    /\ pc[s] = "wait"
    /\ state[s] = STATE_RUNNING /\ last[s] = STATE_RUNNING
    /\ acted[s] = "running" /\ nspawn[s] = 1

\* C10: a State whose discovery finds no running process goes, with no
\* external events, through to_unmonitored, STOPPED, stopped, STARTING and
\* start in that order, spawns exactly once and rests in STARTING with the
\* child's pid; a following dispatch_poll_result(pid, true) moves it to
\* RUNNING and the running action is accepted.
C10_ColdStart ==
    /\ [](Quiet => \A s \in States : disc[s] = "cold" => ColdStage(s))
    /\ \A s \in WatchCounts :
         <>(~Quiet \/ s \notin States \/ disc[s] = "warm" \/ ColdDone(s))
    /\ \A s \in WatchCounts :
         (s \in States /\ FirstPollRunning(s)) ~>
             \/ s \notin States
             \/ mainpc \in { "q_write", "q_post", "q_join", "q_free", "exit" }
             \/ ndispatch > 1
             \/ RunningAccepted(s)

\* C10 witness: a cold-started State was polled running once and rests in
\* RUNNING with the pid of the one child it spawned
C10_Witness ==
    \E s \in States :
        /\ disc[s] = "cold"
        /\ ndispatch = 1
        /\ mainpc = "loop"
        /\ mpid = pid[s]
        /\ RunningAccepted(s)
        /\ sem[s] = 0

(* ------------------------------- C11 ---------------------------------- *)

\* the state machine rests after a warm start: the running action was
\* accepted, StateValue is RUNNING, pid is the pid the PID store yielded, and
\* nothing was spawned
WarmDone(s) ==
    /\ pc[s] = "wait" /\ sem[s] = 0
    /\ state[s] = STATE_RUNNING /\ last[s] = STATE_RUNNING
    /\ acted[s] = "running" /\ nspawn[s] = 0
    /\ found[s] > 0 /\ pid[s] = found[s]

\* the positions of a warm start, in order
WarmStage(s) ==
    \/ /\ pc[s] = "tu_write" /\ sem[s] = 0 /\ acted[s] = "to_unmonitored"
       /\ state[s] = STATE_UNMONITORED /\ last[s] = STATE_INIT
       /\ nspawn[s] = 0 /\ found[s] > 0 /\ pid[s] = found[s]
    \/ /\ pc[s] = "tu_post" /\ sem[s] = 0 /\ acted[s] = "to_unmonitored"
       /\ state[s] = STATE_RUNNING /\ last[s] = STATE_INIT
       /\ nspawn[s] = 0 /\ found[s] > 0 /\ pid[s] = found[s]
    \/ /\ pc[s] = "wait" /\ sem[s] = 1 /\ acted[s] = "to_unmonitored"
       /\ state[s] = STATE_RUNNING /\ last[s] = STATE_UNMONITORED
       /\ nspawn[s] = 0 /\ found[s] > 0 /\ pid[s] = found[s]
    \/ WarmDone(s)

\* C11: a State whose PID store yields a pid p > 0 of a live process goes,
\* with no external events, through to_unmonitored (which records p) to
\* RUNNING, comes to rest there with pid = p and stays there; start is never
\* executed and no child is spawned.
C11_WarmStart ==
    /\ [](Quiet => \A s \in States : disc[s] = "warm" => WarmStage(s))
    /\ [][ \A s \in States :
             /\ (pc[s] = "tu_pid" /\ pc'[s] = "tu_write" /\ disc'[s] = "warm") =>
                   (pid[s] = 0 => pid'[s] = found'[s]) /\ found'[s] > 0 /\ running'[s]
             /\ (Quiet /\ Quiet' /\ WarmDone(s)) => WarmDone(s)'
         ]_vars
    /\ \A s \in WatchCounts :
         <>(~Quiet \/ s \notin States \/ disc[s] = "cold" \/ WarmDone(s))

\* C11 witness: with no poll result and no teardown, a State whose discovery
\* found a live process rests in RUNNING with that pid and nothing spawned
C11_Witness ==
    \E s \in States :
        /\ Quiet
        /\ disc[s] = "warm"
        /\ WarmDone(s)

(* ------------------------------- C12 ---------------------------------- *)

\* the main context has left the while loop of handle_process_event
LoopLeft == epc \in { "teardown", "epilogue", "unsubscribe", "out", "returned" }

\* C12: once on_terminate has run for a SIGTERM or SIGINT, at whatever point
\* of the event loop it was delivered, the event loop eventually leaves its
\* loop, without the environment having to supply a kernel event
C12_TerminationLeavesLoop ==
    term ~> LoopLeft

(* ------------------------------- C13 ---------------------------------- *)

\* C13: after a recv that returned -1 with an errno other than EINTR, the
\* event loop performs no further readiness wait and no further read, and
\* event_loop returns 0
C13_RecvErrorEndsLoop ==
    [][ lastrecv = "error" =>
          /\ epc' \notin { "enter", "wait" }
          /\ lastrecv' = "error"
          /\ epc' = "returned" => ret' = 0
      ]_vars

(* ------------------------------- C14 ---------------------------------- *)

\* C14: after a recv that returned 0, the event loop performs no further
\* readiness wait, no further read and no dispatch, and goes on to return
C14_ShutdownLeavesLoop ==
    [][ lastrecv = "shutdown" =>
          /\ epc' \in { "test", "teardown", "epilogue", "unsubscribe", "out", "returned" }
          /\ lastrecv' = "shutdown"
          /\ calls' = 0
      ]_vars

(* ------------------------------- C15 ---------------------------------- *)

\* the step in which recv on the socket returns -1 with EINTR
EintrStep ==
    /\ epc = "for" /\ hpc = "idle"
    /\ i <= Len(ready) /\ ready[i] = "sock"
    /\ i' = i + 1
    /\ lastrecv' = "eintr"

\* C15: a recv that returns -1 with EINTR invokes the dispatcher not at all
\* and goes on with the for loop (rc = 1, nothing logged, the exit flag and
\* the return value untouched); however many of them come in a row, the loop
\* is left afterwards only through the exit flag, and event_loop then returns
\* success.
C15_EintrRetried ==
    /\ [][ EintrStep =>
             /\ calls' = 0 /\ hpid' = 0
             /\ rc' = 1
             /\ epc' = "for"
             /\ need_exit' = need_exit
             /\ ret' = ret
             /\ ready' = ready
         ]_vars
    /\ [](lastrecv = "eintr" =>
            /\ rc = 1
            /\ calls = 0
            /\ LoopLeft => need_exit = 1
            /\ epc = "returned" => ret = 1)

\* C15 witness: two recv calls in a row returned -1 with EINTR, and the event
\* loop is back in its readiness wait with the exit flag clear
C15_Witness ==
    /\ neintr = 2
    /\ lastrecv = "eintr"
    /\ epc = "wait"
    /\ need_exit = 0
    /\ rc = 1

(* ------------------------------- C16 ---------------------------------- *)

\* the step that decodes the datagram just read and, maybe, calls the handler
DecodeStep == epc = "decode" /\ epc' = "for"

\* the datagram is one the dispatcher is to be invoked for
Dispatchable(ev) ==
    \/ ev.what = "FORK" /\ ev.parent_pid > 0
    \/ ev.what = "EXIT" /\ ev.process_pid > 0

\* C16: for each datagram read the handler is invoked at most once, and
\* exactly when the message is a FORK with parent pid > 0 (then with the
\* parent pid) or an EXIT with exiting pid > 0 (then with that pid); NONE,
\* EXEC, UID, GID and unknown opcodes invoke nothing; no other step of the
\* event loop invokes the handler.
C16_DispatchPerDatagram ==
    /\ [](calls <= 1)
    /\ [][ /\ DecodeStep =>
                /\ calls = 0
                /\ calls' = IF Dispatchable(msg) THEN 1 ELSE 0
                /\ (msg.what = "FORK" /\ Dispatchable(msg)) => hpid' = msg.parent_pid
                /\ (msg.what = "EXIT" /\ Dispatchable(msg)) => hpid' = msg.process_pid
                /\ msg.what \notin { "FORK", "EXIT" } => (calls' = 0 /\ hpid' = 0)
           /\ (calls' > calls \/ (hpid' # hpid /\ hpid' # 0)) => DecodeStep
         ]_vars

\* C16 witness: a FORK datagram of parent 1 and child 2 was read and the
\* handler was invoked once, with pid 1
C16_Witness ==
    /\ epc = "for"
    /\ lastrecv = "data"
    /\ msg.what = "FORK"
    /\ msg.parent_pid = 1
    /\ msg.child_pid = 2
    /\ calls = 1
    /\ hpid = 1

(* ------------------------------- C17 ---------------------------------- *)

\* the socket was opened, and event_loop has returned
ReturnedOpened == epc = "returned" /\ sock # "unopened"

\* the step that calls unsubscribe_event_listen
UnsubscribeStep == ~unsub /\ unsub'

\* C17 as claimed: whenever event_loop returns after it opened and subscribed
\* the socket, it has unsubscribed it and then closed it, whatever the event
\* loop returned; whenever it returns after it opened the socket, it has
\* closed it exactly once
C17_UnsubscribedThenClosed ==
    /\ [](nclose <= 1)
    /\ [](ReturnedOpened => (sock = "closed" /\ nclose = 1))
    /\ []((ReturnedOpened /\ subscribed) => unsub)
    /\ [][UnsubscribeStep => (sock = "open" /\ nclose = 0)]_vars

\* C17 amended: whenever event_loop returns after it opened the socket, it
\* has closed it exactly once; after it subscribed, it has unsubscribed
\* before that close exactly when handle_process_event returned something
\* other than -1; when handle_process_event returned -1 it has closed the
\* socket without unsubscribing and returns 0
C17_ClosedOnceUnsubscribedUnlessFailed ==
    /\ [](nclose <= 1)
    /\ [](ReturnedOpened => (sock = "closed" /\ nclose = 1))
    /\ []((ReturnedOpened /\ subscribed) =>
            /\ unsub <=> rc # -1
            /\ rc = -1 => ret = 0
            /\ rc # -1 => ret = rc)
    /\ []((ReturnedOpened /\ ~subscribed) => (~unsub /\ ret = 0))
    /\ [][UnsubscribeStep => (sock = "open" /\ nclose = 0 /\ subscribed)]_vars

\* C17 witness: the event loop ended on a termination signal and event_loop
\* has returned success with the socket unsubscribed and closed once
C17_Witness ==
    /\ epc = "returned"
    /\ subscribed
    /\ term
    /\ unsub
    /\ sock = "closed"
    /\ nclose = 1
    /\ ret = 1

(* ------------------------------- C18 ---------------------------------- *)

\* hash_destroy(nyx->watches) has run
WatchesDestroyed == mainpc = "exit"

\* C18: a State and its semaphore are freed only by state_destroy after its
\* pthread_join, when the state-machine thread has left state_loop; the
\* watches are destroyed only after every State has been destroyed; so no
\* step of a state machine touches a freed State or semaphore or a destroyed
\* Watch.
C18_TeardownOrdering ==
    /\ [](\A s \in States : freed[s] => pc[s] = "done")
    /\ [](WatchesDestroyed => \A s \in States : freed[s])
    /\ [][ \A s \in States :
             /\ SMStep(s) => (~freed[s] /\ ~WatchesDestroyed)
             /\ (freed'[s] /\ ~freed[s]) =>
                   (mainpc = "q_free" /\ mi = s /\ pc[s] = "done")
         ]_vars

\* C18 witness: with two watches, both state machines were driven to QUIT
\* and joined, both States freed, and the watches destroyed
C18_Witness ==
    /\ nwatch = 2
    /\ WatchesDestroyed
    /\ \A s \in States : freed[s] /\ pc[s] = "done" /\ state[s] = STATE_QUIT

(* ------------------------------- C19 ---------------------------------- *)

\* determine_pid_dir has returned
PidDirDecided == epc # "pid_dir"

\* the outcomes of the mkdir_p calls made, in call order
Outcomes == [ k \in 1..Len(probed) |-> probed[k][2] ]

\* C19: mkdir_p is called on /var/run/nyx, ~/.nyx/pid, /tmp/nyx/pid in that
\* order, each at most once, and never after a call that succeeded; the
\* directory chosen is the one of the first (and only) successful call; when
\* all three calls fail no directory is chosen and nyx_initialize returns
\* NULL, and it returns NULL in no other case.
C19_PidDirSelection ==
    /\ [](/\ Len(probed) <= Len(pid_dir_defaults)
          /\ \A k \in 1..Len(probed) : probed[k][1] = k
          /\ \A k \in 1..Len(probed) : Outcomes[k] => k = Len(probed))
    /\ [](PidDirDecided =>
            /\ Len(probed) >= 1
            /\ Outcomes[Len(probed)] =>
                  (pid_dir = pid_dir_defaults[Len(probed)] /\ epc # "init_failed")
            /\ ~Outcomes[Len(probed)] =>
                  /\ Len(probed) = Len(pid_dir_defaults)
                  /\ pid_dir = NULL
                  /\ epc = "init_failed")
    /\ [](~PidDirDecided => (pid_dir = NULL /\ dir = Len(probed) + 1))

\* C19 witness: mkdir_p failed for /var/run/nyx and for ~/.nyx/pid and
\* succeeded for /tmp/nyx/pid, which is the directory chosen
C19_Witness ==
    /\ PidDirDecided
    /\ probed = << << 1, FALSE >>, << 2, FALSE >>, << 3, TRUE >> >>
    /\ pid_dir = "/tmp/nyx/pid"
    /\ epc = "connect"

(* ------------------------------- C20 ---------------------------------- *)

\* the step in which handle_child_stop returns
HandlerReturnStep == hpc = "restore" /\ hpc' = "idle"

\* the children that are zombies
Zombies == { k \in Kids : kid[k] = "zombie" }

\* C20: when handle_child_stop returns, every child that was a zombie when it
\* started has been reaped, however many there were and however many exits
\* the one delivery stands for, and errno is what it was when the handler
\* started; the handler leaves its waitpid loop only when no zombie is left,
\* and the code it interrupted does not run before it returns.
C20_SigchldReapsAll ==
    /\ [][ HandlerReturnStep =>
             /\ errno' = entry[1]
             /\ \A k \in entry[2] : kid'[k] = "reaped"
         ]_vars
    /\ [][ (hpc = "waitpid" /\ hpc' = "restore") => Zombies = {} ]_vars
    /\ [][ hpc # "idle" =>
             (epc' = epc /\ rc' = rc /\ need_exit' = need_exit /\ i' = i) ]_vars
    /\ [](hpc = "idle" => \A k \in entry[2] : kid[k] = "reaped")

\* C20 witness: every child had exited before the one SIGCHLD was delivered,
\* in a thread whose errno was EINTR; the handler has returned, all of them
\* are reaped (the last waitpid failed with ECHILD) and errno is EINTR again
C20_Witness ==
    /\ hpc = "idle"
    /\ entry[2] = Kids
    /\ \A k \in Kids : kid[k] = "reaped"
    /\ entry[1] = "EINTR"
    /\ errno = "EINTR"
    /\ ~chld

(* ------------------------------- C21 ---------------------------------- *)

\* the while loop ends on its test of the exit flag, which on_terminate or
\* handle_eventfd has set
LoopEndsOnFlag == epc = "test" /\ epc' = "teardown"

\* C21: when the loop ends on the exit flag and no recv has failed, the value
\* handle_process_event returns, which event_loop hands to its caller as it
\* is, is non-zero, also when nothing was read before the flag was set
C21_CleanExitReportsSuccess ==
    [][ /\ (LoopEndsOnFlag /\ ~sockerr) => (need_exit = 1 /\ rc # 0 /\ rc # -1)
        /\ epc \in { "teardown", "epilogue" } => rc' = rc
        /\ (epc = "epilogue" /\ epc' # "epilogue") => ret' = IF rc = -1 THEN 0 ELSE rc
      ]_vars

(* ------------------------------- C22 ---------------------------------- *)

\* the state machine is blocked in sem_wait and no wakeup is on its way: the
\* count is 0 and no writer stands between its write and its post
BlockedIdle(s) == pc[s] = "wait" /\ sem[s] = 0 /\ PostPending(s) = 0

\* C22: whenever a state machine is blocked with no wakeup pending, its
\* last_state equals the StateValue its State holds
C22_LastMatchesState ==
    \A s \in States : BlockedIdle(s) => last[s] = state[s]

(* ------------------------------- C23 ---------------------------------- *)

\* C23: with the writers the program has (state_new, to_unmonitored, stopped,
\* dispatch_poll_result, state_destroy and the rollback), no State ever holds
\* STOPPING or INIT, a State that has left UNMONITORED never holds it again,
\* and no state machine ever executes stop
C23_UnreachableValues ==
    /\ [](\A s \in States :
            /\ state[s] \notin { STATE_STOPPING, STATE_INIT }
            /\ acted[s] # "stop")
    /\ [][ \A s \in States :
             state[s] # STATE_UNMONITORED => state'[s] # STATE_UNMONITORED ]_vars

\* C23 witness: a State that was discovered and polled twice had a transition
\* refused: the rollback wrote STOPPED back, and the state machine rests with
\* the refused RUNNING as its last_state
C23_Witness ==
    \E s \in States :
        /\ disc[s] # "none"
        /\ ndispatch >= 2
        /\ mainpc = "loop"
        /\ pc[s] = "wait"
        /\ sem[s] = 0
        /\ state[s] = STATE_STOPPED
        /\ current[s] = STATE_RUNNING
        /\ last[s] = STATE_RUNNING
        /\ acted[s] = NULL

====
